---------------------------- MODULE Spec2Model ----------------------------
(***************************************************************************)
(* A model of the BHIV chain inspector: the block store adapter, the       *)
(* integrity scanner (ScanErrors), the node comparator (CompareNodes) and  *)
(* the command lifecycle of the two programs that carry them:              *)
(*   "inspector"  bhiv-chain-inspector (cmd/inspector.go, internal/...)    *)
(*   "day3"       the single-file program Day-3/main.go                    *)
(* Strings are TLA+ strings; a SHA-256 digest is modelled injectively as   *)
(* the text "sha256(<preimage>)", which stands for its 64 hex characters.  *)
(***************************************************************************)
EXTENDS Integers, Sequences, FiniteSets, TLC

\* ------------------------------------------------------------------ bounds

\* Highest key ("block-<n>") a store of the model may hold.
MaxKey == 2

\* The wall clock (Unix seconds) at which the command runs.
Now0 == 1700000000

\* The longest chain of the scenario stores (blocks 0..MaxChain-1).
MaxChain == 10

\* The longest time (seconds) between two invocations in a row.
MaxElapsed == 1

\* The largest number of blocks a load is asked for.
MaxLoad == 33

\* ------------------------------------------------------- program constants

\* for i := 0; i <= height+10; i++
Overscan == 10

\* block.Timestamp > currentTime+300
FutureTolerance == 300

\* 10 * 365 * 24 * 60 * 60
TenYears == 315360000

\* block.Hash[:16]
HashPrefixLen == 16

\* hex.EncodeToString of a 32-byte SHA-256 sum
DigestHexLen == 64

Impls == {"inspector", "day3"}

\* ------------------------------------------------------------ block model

Digit(d) ==
  CASE d = 0 -> "0" [] d = 1 -> "1" [] d = 2 -> "2" [] d = 3 -> "3"
    [] d = 4 -> "4" [] d = 5 -> "5" [] d = 6 -> "6" [] d = 7 -> "7"
    [] d = 8 -> "8" [] d = 9 -> "9"

\* strconv.Itoa / strconv.FormatInt(n, 10)
RECURSIVE Itoa(_)
Itoa(n) ==
  IF n < 0 THEN "-" \o Itoa(-n)
  ELSE IF n < 10 THEN Digit(n)
  ELSE Itoa(n \div 10) \o Digit(n % 10)

\* hex(sha256(record)): injective in the record, 64 characters long.
Sha256Hex(record) == "sha256(" \o record \o ")"

IsDigest(s) == Len(s) >= 8 /\ SubSeq(s, 1, 7) = "sha256("

\* len(s) of a Go string
StrLen(s) == IF IsDigest(s) THEN DigestHexLen ELSE Len(s)

\* ComputeHash with a separator between the fields.
ComputeHashSeparated(height, prevHash, data, timestamp) ==
  Sha256Hex(Itoa(height) \o "|" \o prevHash \o "|" \o data \o "|"
              \o Itoa(timestamp))

ComputeHash(height, prevHash, data, timestamp) ==
  Sha256Hex(Itoa(height) \o prevHash \o data \o Itoa(timestamp))

\* blocks.Block; the zero value is what `var block Block` holds.
ZeroBlock ==
  [Height |-> 0, Hash |-> "", PrevHash |-> "", Data |-> "", Timestamp |-> 0]

\* len(strings.TrimSpace(s)) == 0, over the characters the model uses
RECURSIVE IsBlank(_)
IsBlank(s) ==
  IF Len(s) = 0 THEN TRUE
  ELSE SubSeq(s, 1, 1) = " " /\ IsBlank(SubSeq(s, 2, Len(s)))

\* Go's integer division truncates toward zero.
GoDiv(a, b) == IF a >= 0 THEN a \div b ELSE -((-a) \div b)

\* ------------------------------------------------------------ block store

\* The bytes under one key: absent, or present and either decodable
\* (json.Unmarshal into Block succeeds) or not.
NotFound == [present |-> FALSE, valid |-> FALSE, block |-> ZeroBlock]

CorruptBytes == [present |-> TRUE, valid |-> FALSE, block |-> ZeroBlock]

\* json.Marshal(block)
Marshal(b) == [present |-> TRUE, valid |-> TRUE, block |-> b]

EmptyStore == [k \in 0..MaxKey |-> NotFound]

\* db.Get(key): <<found, bytes>>
LoadBlockRaw(s, height) ==
  IF height \in DOMAIN s /\ s[height].present
  THEN [err |-> FALSE, raw |-> s[height]]
  ELSE [err |-> TRUE, raw |-> NotFound]

\* json.Unmarshal(data, &block)
Unmarshal(raw) ==
  IF raw.valid THEN [err |-> FALSE, block |-> raw.block]
  ELSE [err |-> TRUE, block |-> ZeroBlock]

LoadBlock(s, height) ==
  LET r == LoadBlockRaw(s, height) IN
  IF r.err THEN [err |-> TRUE, block |-> ZeroBlock]
  ELSE Unmarshal(r.raw)

\* the loop of GetMaxHeight from `height` on
RECURSIVE MaxHeightFrom(_, _)
MaxHeightFrom(s, height) ==
  IF LoadBlock(s, height).err
  THEN (IF height = 0 THEN -1 ELSE height - 1)
  ELSE MaxHeightFrom(s, height + 1)

\* GetMaxHeight as the highest height that loads, holes or not.
GetMaxHeightHighest(s) ==
  LET loads == {k \in DOMAIN s : ~LoadBlock(s, k).err}
  IN  IF loads = {} THEN -1
      ELSE CHOOSE k \in loads : \A j \in loads : j <= k

GetMaxHeight(s) == MaxHeightFrom(s, 0)

\* ------------------------------------------------------ integrity scanner

\* &ErrorScanResult{ScanTime: ..., DatabasePath: dbPath}; ScanTime and
\* DatabasePath are carried by the command, not by the findings.
NewScanResult ==
  [TotalBlocks |-> 0, BlocksScanned |-> 0, TotalErrors |-> 0,
   CorruptedJSON |-> <<>>, BadHash |-> <<>>, TimestampFuture |-> <<>>,
   TimestampPast |-> <<>>, TimestampNotIncreasing |-> <<>>,
   DuplicateHashes |-> <<>>, EmptyBlocks |-> <<>>, PrevHashErrors |-> <<>>,
   HeightErrors |-> <<>>, MissingBlocks |-> <<>>, OutOfOrderBlocks |-> <<>>,
   HealthScore |-> 0, Status |-> ""]

StatusEmpty == "ERROR: Empty database"

Categories ==
  {"CorruptedJSON", "BadHash", "TimestampFuture", "TimestampPast",
   "TimestampNotIncreasing", "DuplicateHashes", "EmptyBlocks",
   "PrevHashErrors", "HeightErrors", "MissingBlocks", "OutOfOrderBlocks"}

\* AddFinding without the count.
AddFindingUncounted(r, list, finding) == [r EXCEPT ![list] = Append(@, finding)]

\* result.<list> = append(result.<list>, finding); result.TotalErrors++
AddFinding(r, list, finding) ==
  [r EXCEPT ![list] = Append(@, finding), !.TotalErrors = @ + 1]

\* The locals of ScanErrors before the loop (after the empty check).
ScanLocals(height, now) ==
  [height |-> height, i |-> 0, seenHashes |-> [h \in {} |-> 0],
   prevBlock |-> <<>>, expectedHeight |-> 0, currentTime |-> now,
   result |-> [NewScanResult EXCEPT !.TotalBlocks = height + 1]]

IdleScan == ScanLocals(-1, 0)

\* if block.Hash != computedHash { ... }
CheckBadHash(r, i, b) ==
  IF b.Hash # ComputeHash(b.Height, b.PrevHash, b.Data, b.Timestamp)
  THEN AddFinding(r, "BadHash", i) ELSE r

\* if firstHeight, exists := seenHashes[block.Hash]; exists { ... }
CheckDuplicate(r, i, b, seen) ==
  IF b.Hash \in DOMAIN seen
  THEN AddFinding(r, "DuplicateHashes", <<i, seen[b.Hash]>>) ELSE r

\* ... else { seenHashes[block.Hash] = i }
Remember(seen, i, b) ==
  IF b.Hash \in DOMAIN seen THEN seen ELSE (b.Hash :> i) @@ seen

\* CheckTimestampFuture with the threshold itself counted as future.
CheckTimestampFutureInclusive(r, i, b, now) ==
  IF b.Timestamp >= now + FutureTolerance
  THEN AddFinding(r, "TimestampFuture", i) ELSE r

\* if block.Timestamp > currentTime+300 { ... }
CheckTimestampFuture(r, i, b, now) ==
  IF b.Timestamp > now + FutureTolerance
  THEN AddFinding(r, "TimestampFuture", i) ELSE r

\* if block.Timestamp < tenYearsAgo { ... }
CheckTimestampPast(r, i, b, now) ==
  IF b.Timestamp < now - TenYears
  THEN AddFinding(r, "TimestampPast", i) ELSE r

\* if prevBlock != nil && block.Timestamp <= prevBlock.Timestamp { ... }
CheckTimestampOrder(r, i, b, prev) ==
  IF prev # <<>> /\ b.Timestamp <= prev[1].Timestamp
  THEN AddFinding(r, "TimestampNotIncreasing", i) ELSE r

\* if block.Data == "" || len(strings.TrimSpace(block.Data)) == 0 { ... }
CheckEmpty(r, i, b) ==
  IF b.Data = "" \/ IsBlank(b.Data)
  THEN AddFinding(r, "EmptyBlocks", i) ELSE r

\* CheckPrevHash without the genesis rule: only the linkage of i > 0.
CheckPrevHashLinkOnly(r, i, b, prev) ==
  IF i # 0 /\ prev # <<>> /\ b.PrevHash # prev[1].Hash
  THEN AddFinding(r, "PrevHashErrors", i) ELSE r

\* CheckPrevHash with the linkage checked against the predecessor's
\* recomputed hash instead of its stored hash.
CheckPrevHashRecomputed(r, i, b, prev) ==
  IF i = 0
  THEN (IF b.PrevHash # "0" THEN AddFinding(r, "PrevHashErrors", i) ELSE r)
  ELSE (IF /\ prev # <<>>
           /\ b.PrevHash # ComputeHash(prev[1].Height, prev[1].PrevHash,
                                       prev[1].Data, prev[1].Timestamp)
        THEN AddFinding(r, "PrevHashErrors", i) ELSE r)

\* if i == 0 { if block.PrevHash != "0" {...} }
\* else if prevBlock != nil && block.PrevHash != prevBlock.Hash { ... }
CheckPrevHash(r, i, b, prev) ==
  IF i = 0
  THEN (IF b.PrevHash # "0" THEN AddFinding(r, "PrevHashErrors", i) ELSE r)
  ELSE (IF prev # <<>> /\ b.PrevHash # prev[1].Hash
        THEN AddFinding(r, "PrevHashErrors", i) ELSE r)

\* if block.Height != expectedHeight { ... }
CheckHeight(r, i, b, expected) ==
  IF b.Height # expected THEN AddFinding(r, "HeightErrors", i) ELSE r

\* CheckOutOfOrder with <= for <.
CheckOutOfOrderInclusive(r, i, b, expected) ==
  IF b.Height <= expected THEN AddFinding(r, "OutOfOrderBlocks", i) ELSE r

\* if block.Height < expectedHeight { ... }
CheckOutOfOrder(r, i, b, expected) ==
  IF b.Height < expected THEN AddFinding(r, "OutOfOrderBlocks", i) ELSE r

\* Day-3 only: the finding's message slices block.Hash[:16], which panics
\* (slice bounds out of range) when the stored hash is shorter.  The
\* inspector's messages do not slice.
SlicePanics(im, b) == im = "day3" /\ StrLen(b.Hash) < HashPrefixLen

\* Whether the per-block checks of a decoded block panic: at the Bad-Hash
\* message or at the Duplicate-Hash message.
ChecksPanic(im, b, seen) ==
  \/ /\ b.Hash # ComputeHash(b.Height, b.PrevHash, b.Data, b.Timestamp)
     /\ SlicePanics(im, b)
  \/ /\ b.Hash \in DOMAIN seen
     /\ SlicePanics(im, b)

\* CheckBlock stopping at the first check that records a finding.
CheckBlockFirstOnly(r, i, b, sc) ==
  LET first(a, c) == IF a # r THEN a ELSE c
      r1 == CheckBadHash(r, i, b)
      r2 == CheckDuplicate(r, i, b, sc.seenHashes)
      r3 == CheckTimestampFuture(r, i, b, sc.currentTime)
      r4 == CheckTimestampPast(r, i, b, sc.currentTime)
      r5 == CheckTimestampOrder(r, i, b, sc.prevBlock)
      r6 == CheckEmpty(r, i, b)
      r7 == CheckPrevHash(r, i, b, sc.prevBlock)
      r8 == CheckHeight(r, i, b, sc.expectedHeight)
      r9 == CheckOutOfOrder(r, i, b, sc.expectedHeight)
  IN  first(r1, first(r2, first(r3, first(r4, first(r5, first(r6,
        first(r7, first(r8, r9))))))))

\* The nine checks of a decoded block, in the order of the code; every one
\* runs whatever the others found.
CheckBlock(r, i, b, sc) ==
  LET r1 == CheckBadHash(r, i, b)
      r2 == CheckDuplicate(r1, i, b, sc.seenHashes)
      r3 == CheckTimestampFuture(r2, i, b, sc.currentTime)
      r4 == CheckTimestampPast(r3, i, b, sc.currentTime)
      r5 == CheckTimestampOrder(r4, i, b, sc.prevBlock)
      r6 == CheckEmpty(r5, i, b)
      r7 == CheckPrevHash(r6, i, b, sc.prevBlock)
      r8 == CheckHeight(r7, i, b, sc.expectedHeight)
  IN  CheckOutOfOrder(r8, i, b, sc.expectedHeight)

\* if rawErr != nil: a Missing Block finding when i <= height.
ScanMissing(sc) ==
  IF sc.i <= sc.height
  THEN [sc EXCEPT !.result = AddFinding(@, "MissingBlocks", sc.i)]
  ELSE sc

\* ScanCorrupted counting the undecodable record in expectedHeight.
ScanCorruptedAdvancing(sc) ==
  [sc EXCEPT !.result = AddFinding(@, "CorruptedJSON", sc.i),
             !.expectedHeight = @ + 1]

\* if err != nil (json.Unmarshal): a Corrupted JSON finding, then continue.
ScanCorrupted(sc) ==
  [sc EXCEPT !.result = AddFinding(@, "CorruptedJSON", sc.i)]

\* ScanDecoded with expectedHeight following the stored height.
ScanDecodedFollowing(sc, b) ==
  [sc EXCEPT
     !.result = CheckBlock([@ EXCEPT !.BlocksScanned = @ + 1], sc.i, b, sc),
     !.seenHashes = Remember(@, sc.i, b),
     !.prevBlock = <<b>>,
     !.expectedHeight = b.Height + 1]

\* A decoded block: BlocksScanned++, the checks, prevBlock = &block,
\* expectedHeight++.
ScanDecoded(sc, b) ==
  [sc EXCEPT
     !.result = CheckBlock([@ EXCEPT !.BlocksScanned = @ + 1], sc.i, b, sc),
     !.seenHashes = Remember(@, sc.i, b),
     !.prevBlock = <<b>>,
     !.expectedHeight = @ + 1]

\* One pass of the loop body for height sc.i: what the loop does next
\* ("continue" also stands for falling off the end of the body) and the
\* locals after it.
ScanIteration(im, s, sc) ==
  LET r == LoadBlockRaw(s, sc.i)
      u == Unmarshal(r.raw)
  IN  IF r.err
      THEN [next |-> IF sc.i > sc.height THEN "break" ELSE "continue",
            sc |-> ScanMissing(sc)]
      ELSE IF u.err
      THEN [next |-> "continue", sc |-> ScanCorrupted(sc)]
      ELSE IF ChecksPanic(im, u.block, sc.seenHashes)
      THEN [next |-> "panic", sc |-> sc]
      ELSE [next |-> "continue", sc |-> ScanDecoded(sc, u.block)]

\* n/d (d > 0) rounded to the nearest integer, halves away from zero.
RoundNearest(n, d) ==
  IF n >= 0 THEN (2 * n + d) \div (2 * d) ELSE -((2 * (-n) + d) \div (2 * d))

\* HealthScoreOf with the quotient rounded instead of truncated.
HealthScoreRounded(r) ==
  IF r.BlocksScanned > 0
  THEN LET h == RoundNearest((r.BlocksScanned - r.TotalErrors) * 100,
                             r.BlocksScanned)
       IN  IF h < 0 THEN 0 ELSE h
  ELSE r.HealthScore

\* HealthScoreOf without the floor at zero.
HealthScoreUnclamped(r) ==
  IF r.BlocksScanned > 0
  THEN GoDiv((r.BlocksScanned - r.TotalErrors) * 100, r.BlocksScanned)
  ELSE r.HealthScore

\* result.HealthScore, computed after the loop
HealthScoreOf(r) ==
  IF r.BlocksScanned > 0
  THEN LET h == GoDiv((r.BlocksScanned - r.TotalErrors) * 100, r.BlocksScanned)
       IN  IF h < 0 THEN 0 ELSE h
  ELSE r.HealthScore

\* StatusOf tolerating one error.
StatusLenient(r) == IF r.TotalErrors <= 1 THEN "HEALTHY" ELSE "ERRORS_FOUND"

StatusOf(r) == IF r.TotalErrors = 0 THEN "HEALTHY" ELSE "ERRORS_FOUND"

\* The tail of ScanErrors: health score and status.
Finish(r) == [r EXCEPT !.HealthScore = HealthScoreOf(r), !.Status = StatusOf(r)]

\* EmptyResult falling through to the tail of ScanErrors.
EmptyResultFallsThrough == Finish(NewScanResult)

\* The early return of ScanErrors for height < 0.
EmptyResult == [NewScanResult EXCEPT !.Status = StatusEmpty, !.HealthScore = 0]

\* -------------------------------------------------------- node comparator

\* float64(a) / float64(b) * 100, kept exact as a fraction num/den.
Percent(a, b) == [num |-> a * 100, den |-> b]

NewComparisonResult ==
  [Node1Height |-> 0, Node2Height |-> 0, MatchingBlocks |-> 0,
   MismatchedBlocks |-> <<>>, Node1OnlyBlocks |-> <<>>,
   Node2OnlyBlocks |-> <<>>, DivergencePoint |-> -1,
   HashMismatches |-> <<>>, DataMismatches |-> <<>>,
   TimestampMismatches |-> <<>>, SyncPercentage |-> Percent(0, 1),
   Recommendations |-> <<>>]

\* SetDivergence where the last writer wins.
SetDivergenceLast(r, i) == [r EXCEPT !.DivergencePoint = i]

\* if result.DivergencePoint == -1 { result.DivergencePoint = i }
SetDivergence(r, i) ==
  IF r.DivergencePoint = -1 THEN [r EXCEPT !.DivergencePoint = i] ELSE r

\* CompareLocals with the loop bound at the shorter chain's height.
CompareLocalsShorter(s1, s2) ==
  LET h1 == GetMaxHeight(s1)
      h2 == GetMaxHeight(s2)
  IN  [i |-> 0, maxHeight |-> IF h2 < h1 THEN h2 ELSE h1,
       result |-> [NewComparisonResult EXCEPT !.Node1Height = h1,
                                              !.Node2Height = h2]]

\* The locals of CompareNodes before the loop.
CompareLocals(s1, s2) ==
  LET h1 == GetMaxHeight(s1)
      h2 == GetMaxHeight(s2)
  IN  [i |-> 0, maxHeight |-> IF h2 > h1 THEN h2 ELSE h1,
       result |-> [NewComparisonResult EXCEPT !.Node1Height = h1,
                                              !.Node2Height = h2]]

IdleCompare == [i |-> 0, maxHeight |-> -1, result |-> NewComparisonResult]

\* Both blocks loaded: the hash decides match or mismatch; data and
\* timestamp differences are listed beside it.
CompareBoth(r, i, b1, b2) ==
  LET r1 == IF b1.Hash # b2.Hash
            THEN [SetDivergence(r, i) EXCEPT
                    !.MismatchedBlocks = Append(@, i),
                    !.HashMismatches = Append(@, i)]
            ELSE [r EXCEPT !.MatchingBlocks = @ + 1]
      r2 == IF b1.Data # b2.Data
            THEN [r1 EXCEPT !.DataMismatches = Append(@, i)] ELSE r1
  IN  IF b1.Timestamp # b2.Timestamp
      THEN [r2 EXCEPT !.TimestampMismatches = Append(@, i)] ELSE r2

\* CompareIteration taking a record that is there but does not decode for
\* a block (the zero Block) instead of an absent one.
CompareIterationRaw(s1, s2, r, i) ==
  LET l1 == LoadBlockRaw(s1, i)
      l2 == LoadBlockRaw(s2, i)
  IN  IF l1.err /\ l2.err THEN r
      ELSE IF l1.err /\ ~l2.err
      THEN [SetDivergence(r, i) EXCEPT !.Node2OnlyBlocks = Append(@, i)]
      ELSE IF ~l1.err /\ l2.err
      THEN [SetDivergence(r, i) EXCEPT !.Node1OnlyBlocks = Append(@, i)]
      ELSE CompareBoth(r, i, Unmarshal(l1.raw).block, Unmarshal(l2.raw).block)

\* One pass of the loop body of CompareNodes for height i.
CompareIteration(s1, s2, r, i) ==
  LET l1 == LoadBlock(s1, i)
      l2 == LoadBlock(s2, i)
  IN  IF l1.err /\ l2.err THEN r
      ELSE IF l1.err /\ ~l2.err
      THEN [SetDivergence(r, i) EXCEPT !.Node2OnlyBlocks = Append(@, i)]
      ELSE IF ~l1.err /\ l2.err
      THEN [SetDivergence(r, i) EXCEPT !.Node1OnlyBlocks = Append(@, i)]
      ELSE CompareBoth(r, i, l1.block, l2.block)

\* BaseRecommendations with the divergence entry before the height entry.
BaseRecommendationsDivergeFirst(r) ==
  LET heightDiff == r.Node1Height - r.Node2Height
      behind ==
        IF heightDiff > 0
        THEN <<"Node2 is " \o Itoa(heightDiff)
                 \o " blocks behind - sync from Node1">>
        ELSE IF heightDiff < 0
        THEN <<"Node1 is " \o Itoa(-heightDiff)
                 \o " blocks behind - sync from Node2">>
        ELSE <<>>
      diverge ==
        IF r.DivergencePoint >= 0
        THEN <<"Chains diverge at block " \o Itoa(r.DivergencePoint)>>
        ELSE <<>>
  IN  diverge \o behind

\* The height and divergence entries both programs produce.
BaseRecommendations(r) ==
  LET heightDiff == r.Node1Height - r.Node2Height
      behind ==
        IF heightDiff > 0
        THEN <<"Node2 is " \o Itoa(heightDiff)
                 \o " blocks behind - sync from Node1">>
        ELSE IF heightDiff < 0
        THEN <<"Node1 is " \o Itoa(-heightDiff)
                 \o " blocks behind - sync from Node2">>
        ELSE <<>>
      diverge ==
        IF r.DivergencePoint >= 0
        THEN <<"Chains diverge at block " \o Itoa(r.DivergencePoint)>>
        ELSE <<>>
  IN  behind \o diverge

\* if len(recs) == 0 { recs = append(recs, "Nodes are perfectly synchronized") }
OrSynchronized(recs) ==
  IF Len(recs) = 0 THEN <<"Nodes are perfectly synchronized">> ELSE recs

\* bhiv-chain-inspector: no hash-mismatch entry.
generateRecommendations(r) == OrSynchronized(BaseRecommendations(r))

\* Day-3: a "Found N hash mismatches" entry after the divergence entry.
generateComparisonRecommendations(r) ==
  OrSynchronized(
    BaseRecommendations(r) \o
    (IF Len(r.HashMismatches) > 0
     THEN <<"Found " \o Itoa(Len(r.HashMismatches)) \o " hash mismatches">>
     ELSE <<>>))

\* CompareTail dividing by maxHeight instead of maxHeight + 1.
CompareTailOffByOne(im, c) ==
  LET r1 == IF c.maxHeight >= 0
            THEN [c.result EXCEPT !.SyncPercentage =
                    Percent(c.result.MatchingBlocks, c.maxHeight)]
            ELSE c.result
  IN  [r1 EXCEPT !.Recommendations =
         IF im = "inspector" THEN generateRecommendations(r1)
         ELSE generateComparisonRecommendations(r1)]

\* The tail of CompareNodes: sync percentage and recommendations.
CompareTail(im, c) ==
  LET r1 == IF c.maxHeight >= 0
            THEN [c.result EXCEPT !.SyncPercentage =
                    Percent(c.result.MatchingBlocks, c.maxHeight + 1)]
            ELSE c.result
  IN  [r1 EXCEPT !.Recommendations =
         IF im = "inspector" THEN generateRecommendations(r1)
         ELSE generateComparisonRecommendations(r1)]

\* ------------------------------------------------------------ sample data

\* The block loadSampleData builds for height i.
SampleBlock(i, prevHash, now) ==
  LET timestamp == now + i * 10
      data == "Transaction data for block " \o Itoa(i)
  IN  [Height |-> i, Hash |-> ComputeHash(i, prevHash, data, timestamp),
       PrevHash |-> prevHash, Data |-> data, Timestamp |-> timestamp]

\* db.Put(key, data) under key "block-<block.Height>"
SaveBlock(s, b) == (b.Height :> Marshal(b)) @@ s

\* ----------------------------------------------------------------- inputs

\* b with its hash recomputed from its fields.
Seal(b) ==
  [b EXCEPT !.Hash = ComputeHash(b.Height, b.PrevHash, b.Data, b.Timestamp)]

\* The well-formed chain the inputs are variations of.
RECURSIVE Good(_)
Good(h) ==
  Seal([Height |-> h, Hash |-> "",
        PrevHash |-> IF h = 0 THEN "0" ELSE Good(h - 1).Hash,
        Data |-> "tx", Timestamp |-> Now0 - 1000 + 10 * h])

\* The blocks a store may hold under key h: the good block and blocks
\* that differ from it in one field (hash left stale, or resealed).
BlocksAt(h) ==
  LET g == Good(h) IN
  { g,
    [g EXCEPT !.Data = "ty"],
    [g EXCEPT !.Data = " "],
    [g EXCEPT !.Hash = ""],
    [g EXCEPT !.Hash = Good(0).Hash],
    Seal([g EXCEPT !.PrevHash = "zz"]),
    Seal([g EXCEPT !.Height = h + 1]),
    Seal([g EXCEPT !.Height = h - 1]),
    Seal([g EXCEPT !.Timestamp = Now0 + FutureTolerance + 1]),
    Seal([g EXCEPT !.Timestamp = Now0 - TenYears - 1]) }

RawAt(h) == {NotFound, CorruptBytes} \cup {Marshal(b) : b \in BlocksAt(h)}

\* All stores over keys 0..k with RawAt(h) under key h.
RECURSIVE StoresUpTo(_)
StoresUpTo(k) ==
  IF k = 0 THEN {(0 :> r) : r \in RawAt(0)}
  ELSE {(k :> r) @@ s : r \in RawAt(k), s \in StoresUpTo(k - 1)}

ScanStores == StoresUpTo(MaxKey)

\* The inputs of the whole-program specification: database 1 holds, under
\* each key, nothing, undecodable bytes, the good block or a block whose
\* hash field is the empty string; database 2 holds a chain of good
\* blocks with holes.
MainRawAt(h) ==
  {NotFound, CorruptBytes, Marshal(Good(h)),
   Marshal([Good(h) EXCEPT !.Hash = ""])}

PeerRawAt(h) == {NotFound, Marshal(Good(h))}

RECURSIVE MainStoresUpTo(_)
MainStoresUpTo(k) ==
  IF k = 0 THEN {(0 :> r) : r \in MainRawAt(0)}
  ELSE {(k :> r) @@ s : r \in MainRawAt(k), s \in MainStoresUpTo(k - 1)}

RECURSIVE PeerStoresUpTo(_)
PeerStoresUpTo(k) ==
  IF k = 0 THEN {(0 :> r) : r \in PeerRawAt(0)}
  ELSE {(k :> r) @@ s : r \in PeerRawAt(k), s \in PeerStoresUpTo(k - 1)}

MainStores == MainStoresUpTo(MaxKey)

PeerStores == PeerStoresUpTo(MaxKey)

\* The scenario stores: chains of up to MaxChain blocks.  A chain is
\* forged from the height, data and timestamp of each block: every block
\* is sealed and linked to the stored hash of the one before.
GoodFields(n) ==
  [k \in 1..n |->
     [Height |-> k - 1, Data |-> "tx", Timestamp |-> Now0 - 1000 + 10 * (k - 1)]]

RECURSIVE Forge(_)
Forge(fields) ==
  IF fields = <<>> THEN <<>>
  ELSE LET n == Len(fields)
           init == Forge(SubSeq(fields, 1, n - 1))
           f == fields[n]
       IN  Append(init,
             Seal([Height |-> f.Height, Hash |-> "",
                   PrevHash |-> IF n = 1 THEN "0" ELSE init[n - 1].Hash,
                   Data |-> f.Data, Timestamp |-> f.Timestamp]))

\* The store holding the blocks bs under the keys 0..Len(bs)-1.
StoreOf(bs) == [k \in 0..(Len(bs) - 1) |-> Marshal(bs[k + 1])]

GoodChain(n) == StoreOf(Forge(GoodFields(n)))

\* The chains scan-errors is run on in SpecChain: the good chain of every
\* length; the good chain with one block's data changed, or one block's
\* hash blanked, after sealing; and chains forged with the last timestamp
\* at or past the future tolerance, or the first at or past ten years.
ChainStores ==
  {GoodChain(n) : n \in 0..MaxChain}
  \cup UNION {{[GoodChain(n) EXCEPT ![h].block.Data = "ty"] : h \in 0..(n - 1)}
               : n \in 1..MaxChain}
  \cup UNION {{[GoodChain(n) EXCEPT ![h].block.Hash = ""] : h \in 0..(n - 1)}
               : n \in 1..MaxChain}
  \cup {StoreOf(Forge([GoodFields(n) EXCEPT ![n].Timestamp = Now0 + d]))
          : n \in 1..MaxChain, d \in {FutureTolerance, FutureTolerance + 1}}
  \cup {StoreOf(Forge([GoodFields(n) EXCEPT ![1].Timestamp = Now0 - d]))
          : n \in 1..MaxChain, d \in {TenYears, TenYears + 1}}

\* The stores scan-errors is run on twice in SpecTwice: under each key
\* nothing, undecodable bytes, the good block, a block with the hash of
\* block 0 or no hash, or a block stamped one second past the future
\* tolerance or exactly ten years before the first run.
TwiceRawAt(h) ==
  {NotFound, CorruptBytes} \cup
  {Marshal(b) : b \in
     {Good(h),
      [Good(h) EXCEPT !.Hash = Good(0).Hash],
      [Good(h) EXCEPT !.Hash = ""],
      Seal([Good(h) EXCEPT !.Timestamp = Now0 + FutureTolerance + 1]),
      Seal([Good(h) EXCEPT !.Timestamp = Now0 - TenYears])}}

RECURSIVE TwiceStoresUpTo(_)
TwiceStoresUpTo(k) ==
  IF k = 0 THEN {(0 :> r) : r \in TwiceRawAt(0)}
  ELSE {(k :> r) @@ s : r \in TwiceRawAt(k), s \in TwiceStoresUpTo(k - 1)}

TwiceStores == TwiceStoresUpTo(MaxKey)

\* The fields of a chain of n blocks that leaves the good chain at
\* height f: other data from there on, so other hashes.
ForkFields(n, f) ==
  [k \in 1..n |->
     IF k - 1 >= f THEN [GoodFields(n)[k] EXCEPT !.Data = "ty"]
     ELSE GoodFields(n)[k]]

\* The store s without the records of the heights g..f-1.
Holed(s, g, f) ==
  [k \in DOMAIN s |-> IF g <= k /\ k < f THEN NotFound ELSE s[k]]

\* The pairs of stores compare is run on in SpecCompare: <<node 1, node 2>>.
\* Node 1 holds a good chain; node 2 holds a good chain of any length, a
\* chain forked at f (with or without the blocks g..f-1 before the fork),
\* or the same chain with one block's data or timestamp changed after
\* sealing.  The last family has an undecodable record on node 1.
ComparePairs ==
  {<<GoodChain(n), GoodChain(m)>> : n \in 0..MaxChain, m \in 0..MaxChain}
  \cup UNION {UNION {{<<GoodChain(n), Holed(StoreOf(Forge(ForkFields(n, f))), g, f)>>
                       : g \in 0..f} : f \in 0..(n - 1)} : n \in 1..MaxChain}
  \cup UNION {{<<GoodChain(n), [GoodChain(n) EXCEPT ![d].block.Data = "ty"]>>
                 : d \in 0..(n - 1)} : n \in 1..MaxChain}
  \cup UNION {{<<GoodChain(n), [GoodChain(n) EXCEPT ![d].block.Timestamp = @ + 1]>>
                 : d \in 0..(n - 1)} : n \in 1..MaxChain}
  \cup UNION {{<<[GoodChain(n) EXCEPT ![c] = CorruptBytes], GoodChain(n)>>
                 : c \in 0..(n - 1)} : n \in 1..MaxChain}

\* More stores for SpecChain: a good chain of n blocks followed by a tail
\* of undecodable records up to, or one past, the end of the overscan
\* window; and a good chain with one record missing.
TailStores ==
  {[k \in 0..(n - 1 + t) |-> IF k < n THEN Marshal(Good(k)) ELSE CorruptBytes]
     : n \in 0..MaxChain, t \in {1, Overscan, Overscan + 1}}
  \cup UNION {{Holed(GoodChain(n), g, g + 1) : g \in 0..(n - 1)}
               : n \in 1..MaxChain}

\* The field values of SpecHash: chosen so that different fields can
\* concatenate to the same text ("1" "23" and "12" "3"; "tx" "17" and
\* "tx1" "7").
HashFields ==
  [Height : {1, 12}, PrevHash : {"23", "3"}, Data : {"tx", "tx1"},
   Timestamp : {7, 17}]

\* The block with the fields f and the hash computed from the fields g.
SealedAs(f, g) ==
  [Height |-> f.Height,
   Hash |-> ComputeHash(g.Height, g.PrevHash, g.Data, g.Timestamp),
   PrevHash |-> f.PrevHash, Data |-> f.Data, Timestamp |-> f.Timestamp]

\* One-record stores: a block of any fields with the hash of any fields.
HashStores == {(0 :> Marshal(SealedAs(f, g))) : f \in HashFields, g \in HashFields}

\* ------------------------------------------------------------------ state

VARIABLES
  impl,      \* which program runs: "inspector" or "day3"
  cmd,       \* -cmd: "load", "scan-errors" or "compare"
  store,     \* store[n]: the contents of database n (1: -db / -db1, 2: -db2)
  openable,  \* openable[n]: whether opening database n succeeds
  isOpen,    \* isOpen[n]: database n is open (opened and not yet closed)
  pc,        \* the command's position
  exitCode,  \* the process's exit code once pc = "exited", else -1
  report,    \* the report printed: "none", "scan" or "compare"
  clock,     \* time.Now().Unix()
  scan,      \* the locals of ScanErrors
  cmp,       \* the locals of CompareNodes
  ld,        \* the locals of loadSampleData
  earlier    \* what the invocations before this one, on the same stores, did

vars ==
  <<impl, cmd, store, openable, isOpen, pc, exitCode, report, clock, scan,
    cmp, ld, earlier>>

IdleLoad == [i |-> 0, prevHash |-> "0", numBlocks |-> 0]

\* The state in which main starts, whatever the inputs.
Start ==
  /\ isOpen = [n \in 1..2 |-> FALSE]
  /\ pc = "open1"
  /\ exitCode = -1
  /\ report = "none"
  /\ clock = Now0
  /\ scan = IdleScan
  /\ cmp = IdleCompare
  /\ earlier = <<>>

\* scan-errors over every input store.
Init ==
  /\ Start
  /\ impl \in Impls
  /\ cmd = "scan-errors"
  /\ store \in {(1 :> s) @@ (2 :> EmptyStore) : s \in ScanStores}
  /\ openable = [n \in 1..2 |-> TRUE]
  /\ ld = IdleLoad

\* scan-errors over the scenario chains.
InitChain ==
  /\ Start
  /\ impl \in Impls
  /\ cmd = "scan-errors"
  /\ store \in {(1 :> s) @@ (2 :> EmptyStore) : s \in ChainStores \cup TailStores}
  /\ openable = [n \in 1..2 |-> TRUE]
  /\ ld = IdleLoad

\* scan-errors, to be run twice in a row.
InitTwice ==
  /\ Start
  /\ impl \in Impls
  /\ cmd = "scan-errors"
  /\ store \in {(1 :> s) @@ (2 :> EmptyStore) : s \in TwiceStores}
  /\ openable = [n \in 1..2 |-> TRUE]
  /\ ld = IdleLoad

\* compare over the scenario pairs.
InitCompare ==
  /\ Start
  /\ impl \in Impls
  /\ cmd = "compare"
  /\ store \in {(1 :> p[1]) @@ (2 :> p[2]) : p \in ComparePairs}
  /\ openable = [n \in 1..2 |-> TRUE]
  /\ ld = IdleLoad

\* scan-errors over the one-record stores of HashStores.
InitHash ==
  /\ Start
  /\ impl \in Impls
  /\ cmd = "scan-errors"
  /\ store \in {(1 :> s) @@ (2 :> EmptyStore) : s \in HashStores}
  /\ openable = [n \in 1..2 |-> TRUE]
  /\ ld = IdleLoad

\* load of 0..MaxLoad blocks into an empty database.
InitLoad ==
  /\ Start
  /\ impl \in Impls
  /\ cmd = "load"
  /\ store = (1 :> EmptyStore) @@ (2 :> EmptyStore)
  /\ openable = [n \in 1..2 |-> TRUE]
  /\ ld \in {[IdleLoad EXCEPT !.numBlocks = n] : n \in 0..MaxLoad}

\* Every command of both programs: load into an empty database,
\* scan-errors, compare; either database may fail to open.
InitMain ==
  /\ Start
  /\ impl \in Impls
  /\ cmd \in {"load", "scan-errors", "compare"}
  /\ openable \in [1..2 -> BOOLEAN]
  /\ store \in
       IF cmd = "load" THEN {(1 :> EmptyStore) @@ (2 :> EmptyStore)}
       ELSE IF cmd = "scan-errors"
       THEN {(1 :> s) @@ (2 :> EmptyStore) : s \in MainStores}
       ELSE {(1 :> s1) @@ (2 :> s2) : s1 \in MainStores, s2 \in PeerStores}
  /\ ld \in IF cmd = "load"
            THEN {[IdleLoad EXCEPT !.numBlocks = n] : n \in 0..(MaxKey + 1)}
            ELSE {IdleLoad}

\* --------------------------------------------------------------- commands

\* os.Exit(1) ends the process at once: deferred calls do not run.
OsExit(code) ==
  /\ pc' = "exited"
  /\ exitCode' = code
  /\ UNCHANGED isOpen

\* db.NewStorage / leveldb.OpenFile of database n, and the error branch:
\* the inspector prints and calls os.Exit(1), Day-3 prints and returns
\* (its deferred Close calls run).
OpenStore(n) ==
  /\ pc = IF n = 1 THEN "open1" ELSE "open2"
  /\ IF openable[n]
     THEN /\ isOpen' = [isOpen EXCEPT ![n] = TRUE]
          /\ pc' = IF n = 1 /\ cmd = "compare" THEN "open2" ELSE "run"
          /\ UNCHANGED exitCode
     ELSE IF impl = "inspector"
     THEN OsExit(1)
     ELSE /\ pc' = "return"
          /\ UNCHANGED <<isOpen, exitCode>>
  /\ UNCHANGED earlier
  /\ UNCHANGED <<impl, cmd, store, openable, report, clock, scan, cmp, ld>>

Open1 == OpenStore(1)

Open2 == OpenStore(2)

\* ScanStart with seenHashes kept from the call before.
ScanStartCarrying ==
  /\ pc = "run"
  /\ cmd = "scan-errors"
  /\ LET height == GetMaxHeight(store[1]) IN
     IF height < 0
     THEN /\ scan' = [IdleScan EXCEPT !.result = EmptyResult]
          /\ pc' = "output"
     ELSE /\ scan' = [ScanLocals(height, clock) EXCEPT
                        !.seenHashes = scan.seenHashes]
          /\ pc' = "scanloop"
  /\ UNCHANGED earlier
  /\ UNCHANGED <<impl, cmd, store, openable, isOpen, exitCode, report, clock,
                 cmp, ld>>

\* ScanErrors up to its loop: GetMaxHeight, the empty return, the locals.
ScanStart ==
  /\ pc = "run"
  /\ cmd = "scan-errors"
  /\ LET height == GetMaxHeight(store[1]) IN
     IF height < 0
     THEN /\ scan' = [IdleScan EXCEPT !.result = EmptyResult]
          /\ pc' = "output"
     ELSE /\ scan' = ScanLocals(height, clock)
          /\ pc' = "scanloop"
  /\ UNCHANGED earlier
  /\ UNCHANGED <<impl, cmd, store, openable, isOpen, exitCode, report, clock,
                 cmp, ld>>

\* One iteration of the scan loop, i++ and the loop test included.
ScanBody ==
  /\ pc = "scanloop"
  /\ LET it == ScanIteration(impl, store[1], scan) IN
     /\ scan' = IF it.next = "continue"
                THEN [it.sc EXCEPT !.i = @ + 1] ELSE it.sc
     /\ pc' = IF it.next = "panic" THEN "panic"
              ELSE IF it.next = "break" THEN "scancalc"
              ELSE IF scan.i + 1 <= scan.height + Overscan THEN "scanloop"
              ELSE "scancalc"
  /\ UNCHANGED earlier
  /\ UNCHANGED <<impl, cmd, openable, isOpen, exitCode, report, clock, cmp, ld>>

\* ScanBlock deleting the record it found undecodable.
ScanBlockRepairing ==
  /\ ScanBody
  /\ store' =
       [store EXCEPT ![1] =
          [k \in DOMAIN store[1] |->
             IF k = scan.i /\ store[1][k].present /\ ~store[1][k].valid
             THEN NotFound ELSE store[1][k]]]

ScanBlock == ScanBody /\ UNCHANGED store

\* After the loop: health score, status, return result.
ScanFinish ==
  /\ pc = "scancalc"
  /\ scan' = [scan EXCEPT !.result = Finish(@)]
  /\ pc' = "output"
  /\ UNCHANGED earlier
  /\ UNCHANGED <<impl, cmd, store, openable, isOpen, exitCode, report, clock,
                 cmp, ld>>

\* CompareNodes up to its loop.
CompareStart ==
  /\ pc = "run"
  /\ cmd = "compare"
  /\ cmp' = CompareLocals(store[1], store[2])
  /\ pc' = IF cmp'.maxHeight >= 0 THEN "cmploop" ELSE "cmpcalc"
  /\ UNCHANGED earlier
  /\ UNCHANGED <<impl, cmd, store, openable, isOpen, exitCode, report, clock,
                 scan, ld>>

\* One iteration of the compare loop, i++ and the loop test included.
CompareBody ==
  /\ pc = "cmploop"
  /\ cmp' = [cmp EXCEPT
               !.result = CompareIteration(store[1], store[2], @, cmp.i),
               !.i = @ + 1]
  /\ pc' = IF cmp.i + 1 <= cmp.maxHeight THEN "cmploop" ELSE "cmpcalc"
  /\ UNCHANGED earlier
  /\ UNCHANGED <<impl, cmd, openable, isOpen, exitCode, report, clock, scan, ld>>

CompareBlock == CompareBody /\ UNCHANGED store

\* After the loop: sync percentage, recommendations, return result.
CompareFinish ==
  /\ pc = "cmpcalc"
  /\ cmp' = [cmp EXCEPT !.result = CompareTail(impl, cmp)]
  /\ pc' = "output"
  /\ UNCHANGED earlier
  /\ UNCHANGED <<impl, cmd, store, openable, isOpen, exitCode, report, clock,
                 scan, ld>>

\* OutputScanResult / OutputComparisonResult (outputResult,
\* outputComparisonResult in Day-3): the report is printed.
Output ==
  /\ pc = "output"
  /\ report' = IF cmd = "compare" THEN "compare" ELSE "scan"
  /\ pc' = "return"
  /\ UNCHANGED earlier
  /\ UNCHANGED <<impl, cmd, store, openable, isOpen, exitCode, clock, scan,
                 cmp, ld>>

\* loadSampleData up to its loop.
LoadStart ==
  /\ pc = "run"
  /\ cmd = "load"
  /\ ld' = [ld EXCEPT !.i = 0, !.prevHash = "0"]
  /\ pc' = IF 0 < ld.numBlocks THEN "loadloop" ELSE "return"
  /\ UNCHANGED earlier
  /\ UNCHANGED <<impl, cmd, store, openable, isOpen, exitCode, report, clock,
                 scan, cmp>>

\* One iteration of the load loop, with the outcome of its write.  When
\* the write fails the inspector prints and calls os.Exit(1); Day-3
\* discards db.Put's error and goes on.
LoadStepWith(written) ==
  /\ pc = "loadloop"
  /\ LET b == SampleBlock(ld.i, ld.prevHash, clock) IN
     IF ~written /\ impl = "inspector"
     THEN /\ OsExit(1)
          /\ UNCHANGED <<store, ld>>
     ELSE /\ store' = IF written
                      THEN [store EXCEPT ![1] = SaveBlock(@, b)]
                      ELSE store
          /\ ld' = [ld EXCEPT !.i = @ + 1, !.prevHash = b.Hash]
          /\ pc' = IF ld.i + 1 < ld.numBlocks THEN "loadloop" ELSE "return"
          /\ UNCHANGED <<isOpen, exitCode>>
  /\ UNCHANGED earlier
  /\ UNCHANGED <<impl, cmd, openable, report, clock, scan, cmp>>

\* One iteration of the load loop; the write may fail.
LoadStep == \E written \in BOOLEAN : LoadStepWith(written)

\* One iteration of the load loop on a database that takes the write.
LoadStepWritten == LoadStepWith(TRUE)

\* The function returns: the deferred Close calls run, main returns.
Return ==
  /\ pc = "return"
  /\ isOpen' = [n \in 1..2 |-> FALSE]
  /\ pc' = "exited"
  /\ exitCode' = 0
  /\ UNCHANGED earlier
  /\ UNCHANGED <<impl, cmd, store, openable, report, clock, scan, cmp, ld>>

\* A run-time panic unwinds: the deferred Close calls run, then the
\* process dies with exit code 2 and no report.
Panic ==
  /\ pc = "panic"
  /\ isOpen' = [n \in 1..2 |-> FALSE]
  /\ pc' = "exited"
  /\ exitCode' = 2
  /\ UNCHANGED earlier
  /\ UNCHANGED <<impl, cmd, store, openable, report, clock, scan, cmp, ld>>

\* The command is invoked once more on the same stores, some time after
\* the first invocation ended; what the first one did is kept in earlier.
\* Whatever the first ScanErrors left in its locals is still in scan:
\* the second call has to set its own.
Again ==
  /\ pc = "exited"
  /\ cmd = "scan-errors"
  /\ earlier = <<>>
  /\ earlier' = <<[exitCode |-> exitCode, report |-> report,
                   result |-> scan.result, time |-> clock]>>
  /\ \E dt \in 0..MaxElapsed : clock' = clock + dt
  /\ isOpen' = [n \in 1..2 |-> FALSE]
  /\ pc' = "open1"
  /\ exitCode' = -1
  /\ report' = "none"
  /\ UNCHANGED <<impl, cmd, store, openable, scan, cmp, ld>>

\* After a load that ended normally, scan-errors is invoked on the same
\* database, MaxElapsed seconds later at most; what the load did is kept
\* in earlier.
ScanAfterLoad ==
  /\ pc = "exited"
  /\ cmd = "load"
  /\ exitCode = 0
  /\ earlier = <<>>
  /\ earlier' = <<[exitCode |-> exitCode, report |-> report,
                   result |-> scan.result, time |-> clock]>>
  /\ cmd' = "scan-errors"
  /\ \E dt \in 0..MaxElapsed : clock' = clock + dt
  /\ isOpen' = [n \in 1..2 |-> FALSE]
  /\ pc' = "open1"
  /\ exitCode' = -1
  /\ report' = "none"
  /\ UNCHANGED <<impl, store, openable, scan, cmp, ld>>

Next ==
  \/ Open1
  \/ ScanStart
  \/ ScanBlock
  \/ ScanFinish
  \/ Output
  \/ Return
  \/ Panic

Spec == Init /\ [][Next]_vars

SpecChain == InitChain /\ [][Next]_vars

NextTwice == Next \/ Again

SpecTwice == InitTwice /\ [][NextTwice]_vars

NextCompare ==
  \/ Open1
  \/ Open2
  \/ CompareStart
  \/ CompareBlock
  \/ CompareFinish
  \/ Output
  \/ Return

SpecCompare == InitCompare /\ [][NextCompare]_vars

NextHash ==
  \/ Open1
  \/ ScanStart
  \/ ScanBlock
  \/ ScanFinish
  \/ Output
  \/ Return

SpecHash == InitHash /\ [][NextHash]_vars

NextLoad ==
  \/ Open1
  \/ LoadStart
  \/ LoadStepWritten
  \/ ScanAfterLoad
  \/ ScanStart
  \/ ScanBlock
  \/ ScanFinish
  \/ Output
  \/ Return

SpecLoad == InitLoad /\ [][NextLoad]_vars

NextMain ==
  \/ Open1
  \/ Open2
  \/ ScanStart
  \/ ScanBlock
  \/ ScanFinish
  \/ CompareStart
  \/ CompareBlock
  \/ CompareFinish
  \/ Output
  \/ LoadStart
  \/ LoadStep
  \/ Return
  \/ Panic

SpecMain == InitMain /\ [][NextMain]_vars

\* ----------------------------------------------------------------- claims

Range(seq) == {seq[k] : k \in 1..Len(seq)}

Present(s, h) == ~LoadBlockRaw(s, h).err

Decodable(s, h) == ~LoadBlock(s, h).err

\* ScanErrors has returned its result (it is about to be printed).
ScanReturned == cmd = "scan-errors" /\ pc = "output"

NoFindings(r) == \A c \in Categories : r[c] = <<>>

\* C1: in a chain with a hole at height h >= 1 (decodable records below
\* it, no record at h) and decodable records above it, the scan records a
\* Missing Block finding for h and goes on past the hole.
C1_GapDetected ==
  ScanReturned =>
    \A h \in 1..MaxKey :
      (/\ \A k \in 0..(h - 1) : Decodable(store[1], k)
       /\ ~Present(store[1], h)
       /\ \E k \in (h + 1)..MaxKey : Decodable(store[1], k))
      => (h \in Range(scan.result.MissingBlocks) /\ scan.i > h)

\* C2: every stored record is examined, so an undecodable record has a
\* Corrupted finding and a record with a wrong hash has a Bad-Hash finding.
C2_Complete ==
  ScanReturned =>
    \A h \in 0..MaxKey :
      Present(store[1], h) =>
        /\ scan.i > h
        /\ ~Decodable(store[1], h) => h \in Range(scan.result.CorruptedJSON)
        /\ (/\ Decodable(store[1], h)
            /\ store[1][h].block # Seal(store[1][h].block))
           => h \in Range(scan.result.BadHash)

\* C3: whatever the stores hold, scan and compare never abort: once the
\* stores are open the command ends with exit code 0 and its report.
C3_NeverAborts ==
  /\ pc # "panic"
  /\ (/\ pc = "exited"
      /\ cmd \in {"scan-errors", "compare"}
      /\ openable[1]
      /\ cmd = "compare" => openable[2])
     => (exitCode = 0 /\ report = IF cmd = "compare" THEN "compare" ELSE "scan")

\* C4: every store that was opened is closed when the process exits.
C4_ClosedAtExit == pc = "exited" => \A n \in 1..2 : ~isOpen[n]

\* C5: no step of scan-errors or compare changes the contents of a store.
C5_ReadOnly ==
  [][(cmd \in {"scan-errors", "compare"}) => (store' = store)]_vars

\* C5 witness: a compare that found matching and node1-only blocks has run
\* to its end.
C5_Witness ==
  /\ cmd = "compare"
  /\ pc = "exited"
  /\ report = "compare"
  /\ cmp.result.MatchingBlocks > 0
  /\ cmp.result.Node1OnlyBlocks # <<>>

\* C6: with maxHeight < 0 the scan returns at once (no loop iteration)
\* with the empty-database status, health score 0 and no findings.
C6_EmptyScan ==
  (cmd = "scan-errors" /\ GetMaxHeight(store[1]) < 0) =>
    /\ pc \notin {"scanloop", "scancalc", "panic"}
    /\ pc = "output" =>
         /\ scan.result.Status = StatusEmpty
         /\ scan.result.HealthScore = 0
         /\ scan.result.TotalErrors = 0
         /\ NoFindings(scan.result)
         /\ scan.i = 0

\* C6 witness: the scan of a store with an undecodable block 0 (and a
\* decodable block 1) has returned.
C6_Witness ==
  /\ ScanReturned
  /\ GetMaxHeight(store[1]) < 0
  /\ Present(store[1], 0)
  /\ Decodable(store[1], 1)

\* C7: a store with a single undecodable record, at height h (here: every
\* other height holds a decodable record), scans to exactly one Corrupted
\* finding, for h, and no other finding for h.
C7_SingleCorrupted ==
  ScanReturned =>
    \A h \in 0..MaxKey :
      (/\ store[1][h] = CorruptBytes
       /\ \A k \in 0..MaxKey : k # h => Decodable(store[1], k))
      => /\ scan.result.CorruptedJSON = <<h>>
         /\ \A c \in Categories \ {"CorruptedJSON", "DuplicateHashes"} :
              h \notin Range(scan.result[c])
         /\ \A d \in Range(scan.result.DuplicateHashes) : d[1] # h

\* C8 (as stated): the health score is the quotient rounded to the nearest
\* integer, floored at 0; 0 when nothing was scanned.
C8_Rounded ==
  ScanReturned =>
    LET bs == scan.result.BlocksScanned
        te == scan.result.TotalErrors
        q == IF bs > 0 THEN RoundNearest(100 * (bs - te), bs) ELSE 0
    IN  scan.result.HealthScore = IF q < 0 THEN 0 ELSE q

\* C8 (amended): the health score is the quotient truncated to an
\* integer, floored at 0; 0 when nothing was scanned.
C8_Truncated ==
  ScanReturned =>
    LET bs == scan.result.BlocksScanned
        te == scan.result.TotalErrors
        hs == scan.result.HealthScore
    IN  /\ bs = 0 => hs = 0
        /\ (bs > 0 /\ te > bs) => hs = 0
        /\ (bs > 0 /\ te <= bs) =>
             /\ hs * bs <= 100 * (bs - te)
             /\ 100 * (bs - te) < (hs + 1) * bs

\* C8 witness: three blocks scanned, one error, score 66 (66.67 truncated).
C8_Witness ==
  /\ ScanReturned
  /\ scan.result.BlocksScanned = 3
  /\ scan.result.TotalErrors = 1
  /\ scan.result.HealthScore = 66

\* C9: the health score of every scan result lies in 0..100, also when
\* there are more errors than scanned blocks.
C9_ScoreRange ==
  ScanReturned =>
    (0 <= scan.result.HealthScore /\ scan.result.HealthScore <= 100)

\* C9 witness: a scan with more errors than scanned blocks has returned.
C9_Witness ==
  /\ ScanReturned
  /\ scan.result.BlocksScanned > 0
  /\ scan.result.TotalErrors > scan.result.BlocksScanned
  /\ scan.result.HealthScore = 0

\* C10 (as stated): in every scan result the status is HEALTHY iff
\* totalErrors = 0 and ERRORS_FOUND otherwise.
C10_StatusIff ==
  ScanReturned =>
    scan.result.Status =
      IF scan.result.TotalErrors = 0 THEN "HEALTHY" ELSE "ERRORS_FOUND"

\* C10 (amended): that holds of the scan of a store with maxHeight >= 0;
\* with maxHeight < 0 the status is the empty-database status although
\* totalErrors = 0.
C10_StatusIffNonEmpty ==
  ScanReturned =>
    IF GetMaxHeight(store[1]) >= 0
    THEN scan.result.Status =
           IF scan.result.TotalErrors = 0 THEN "HEALTHY" ELSE "ERRORS_FOUND"
    ELSE scan.result.Status = StatusEmpty /\ scan.result.TotalErrors = 0

\* C10 witness: the scan of a full chain returned HEALTHY.
C10_Witness ==
  /\ ScanReturned
  /\ scan.result.Status = "HEALTHY"
  /\ scan.result.BlocksScanned = MaxKey + 1

\* The number of entries of seq equal to x.
Count(seq, x) == Cardinality({k \in 1..Len(seq) : seq[k] = x})

\* C11: when the record at height 0 decodes to a block whose prevHash is
\* not "0", the returned result has exactly one PrevHash finding for
\* height 0, whatever else the store holds.
C11_GenesisRule ==
  (/\ ScanReturned
   /\ Decodable(store[1], 0)
   /\ store[1][0].block.PrevHash # "0")
  => Count(scan.result.PrevHashErrors, 0) = 1

\* C11 witness: a scan of a chain with a wrong genesis prevHash and other
\* anomalies (a second PrevHash finding among them) has returned.
C11_Witness ==
  /\ ScanReturned
  /\ Decodable(store[1], 0)
  /\ store[1][0].block.PrevHash # "0"
  /\ Len(scan.result.PrevHashErrors) = 2
  /\ scan.result.PrevHashErrors[1] = 0
  /\ scan.result.BadHash # <<>>

\* The record at position p was decoded by the scan that returned.
Examined(p) == ScanReturned /\ p < scan.i /\ Decodable(store[1], p)

\* The records decoded at positions below p: expectedHeight at position p.
DecodedBelow(s, p) == Cardinality({k \in 0..(p - 1) : Decodable(s, k)})

ChainLen(s) == Cardinality(DOMAIN s)

IsChain(s) ==
  /\ ChainLen(s) >= 1
  /\ DOMAIN s = 0..(ChainLen(s) - 1)
  /\ \A k \in DOMAIN s : Decodable(s, k)

\* Block k stores its position, links to the stored hash of block k-1
\* ("0" at genesis), is later than block k-1 and has data.
LinkedAt(s, k) ==
  LET b == s[k].block IN
  /\ b.Height = k
  /\ b.PrevHash = IF k = 0 THEN "0" ELSE s[k - 1].block.Hash
  /\ k > 0 => b.Timestamp > s[k - 1].block.Timestamp
  /\ ~IsBlank(b.Data)

\* The stored hash of block k is computeHash of its fields.
SealedAt(s, k) == s[k].block = Seal(s[k].block)

WellFormed(s) ==
  IsChain(s) /\ \A k \in DOMAIN s : LinkedAt(s, k) /\ SealedAt(s, k)

\* No timestamp of s is a Timestamp-Future or Timestamp-Past finding at now.
InWindow(s, now) ==
  \A k \in DOMAIN s :
    /\ s[k].block.Timestamp <= now + FutureTolerance
    /\ s[k].block.Timestamp >= now - TenYears

Healthy(r) ==
  r.TotalErrors = 0 /\ r.Status = "HEALTHY" /\ r.HealthScore = 100

\* C12 (as stated): a well-formed chain scans with totalErrors = 0, status
\* HEALTHY and health score 100.
C12_WellFormedHealthy ==
  (ScanReturned /\ WellFormed(store[1])) => Healthy(scan.result)

\* C12 (amended): a well-formed chain whose timestamps lie between ten
\* years before the scan and 300 s after it scans with no finding, every
\* block scanned, totalErrors = 0, status HEALTHY and health score 100.
C12_WellFormedInWindow ==
  (ScanReturned /\ WellFormed(store[1]) /\ InWindow(store[1], clock))
  => /\ Healthy(scan.result)
     /\ NoFindings(scan.result)
     /\ scan.result.BlocksScanned = ChainLen(store[1])
     /\ scan.result.TotalBlocks = ChainLen(store[1])

\* C12 witness: the scan of a well-formed chain of 5 blocks has returned.
C12_Witness ==
  /\ ScanReturned
  /\ WellFormed(store[1])
  /\ InWindow(store[1], clock)
  /\ ChainLen(store[1]) = 5
  /\ Healthy(scan.result)

\* The data a block may have been sealed with.
DataValues == {"tx", "ty"}

\* s is a well-formed chain in the window but for block h, whose data was
\* changed (to other non-blank data) after its hash was computed.
TamperedAt(s, h) ==
  /\ IsChain(s)
  /\ InWindow(s, clock)
  /\ \A k \in DOMAIN s : LinkedAt(s, k)
  /\ \A k \in DOMAIN s \ {h} : SealedAt(s, k)
  /\ \E d \in DataValues \ {s[h].block.Data} :
       s[h].block.Hash = Seal([s[h].block EXCEPT !.Data = d]).Hash

\* C13: such a chain scans to exactly one finding, a Bad-Hash finding for
\* h: no linkage finding for h+1, totalErrors = 1, and health score 80
\* when the chain has 5 blocks.
C13_DataMutated ==
  ScanReturned =>
    \A h \in DOMAIN store[1] :
      TamperedAt(store[1], h) =>
        /\ scan.result.BadHash = <<h>>
        /\ \A c \in Categories \ {"BadHash"} : scan.result[c] = <<>>
        /\ scan.result.TotalErrors = 1
        /\ scan.result.BlocksScanned = ChainLen(store[1])
        /\ ChainLen(store[1]) = 5 => scan.result.HealthScore = 80

\* C13 witness: the scan of a 5-block chain with block 2's data changed
\* has returned with health score 80.
C13_Witness ==
  /\ ScanReturned
  /\ ChainLen(store[1]) = 5
  /\ TamperedAt(store[1], 2)
  /\ scan.result.BadHash = <<2>>
  /\ scan.result.HealthScore = 80

\* The second scan-errors in a row has returned, after a first that did.
SecondReturned ==
  ScanReturned /\ earlier # <<>> /\ earlier[1].report = "scan"

\* Every decoded block of s is on the same side of the Timestamp-Future
\* and Timestamp-Past thresholds at the times t1 and t2.
SameVerdicts(s, t1, t2) ==
  \A h \in DOMAIN s :
    Decodable(s, h) =>
      LET ts == s[h].block.Timestamp IN
      /\ (ts > t1 + FutureTolerance) <=> (ts > t2 + FutureTolerance)
      /\ (ts < t1 - TenYears) <=> (ts < t2 - TenYears)

CompareReturned == cmd = "compare" /\ pc = "output"

\* The least element of a non-empty set of integers.
Min(S) == CHOOSE x \in S : \A y \in S : x <= y

\* max(heightA, heightB)
ScanLimit ==
  LET h1 == GetMaxHeight(store[1])
      h2 == GetMaxHeight(store[2])
  IN  IF h2 > h1 THEN h2 ELSE h1

\* The two stores disagree at height i: the block loads on one side only,
\* or it loads on both and the hash, the data or the timestamp differs.
Disagree(s1, s2, i) ==
  LET l1 == LoadBlock(s1, i)
      l2 == LoadBlock(s2, i)
  IN  \/ l1.err # l2.err
      \/ /\ ~l1.err
         /\ ~l2.err
         /\ \/ l1.block.Hash # l2.block.Hash
            \/ l1.block.Data # l2.block.Data
            \/ l1.block.Timestamp # l2.block.Timestamp

\* C16: divergencePoint is the lowest compared height at which the stores
\* disagree in any way, and -1 when they agree at every compared height.
C16_AnyDisagreement ==
  CompareReturned =>
    LET D == {i \in 0..ScanLimit : Disagree(store[1], store[2], i)} IN
    cmp.result.DivergencePoint = IF D = {} THEN -1 ELSE Min(D)

\* s starts with text.
StartsWith(s, text) ==
  Len(s) >= Len(text) /\ SubSeq(s, 1, Len(text)) = text

\* C17: node 1 holds a well-formed chain of n blocks and node 2 its blocks
\* 0..k, k < n-1.  Then k+1 blocks match, node 1 alone has k+1..n-1 (in
\* that order), no height is mismatched, the divergence point is k+1, the
\* sync percentage is 100(k+1)/n and node 2 is said to be n-1-k behind.
C17_Truncated ==
  CompareReturned =>
    LET n == ChainLen(store[1])
        k == ChainLen(store[2]) - 1
        r == cmp.result
    IN  (/\ WellFormed(store[1])
         /\ IsChain(store[2])
         /\ k < n - 1
         /\ \A i \in 0..k : store[2][i] = store[1][i])
        => /\ r.MatchingBlocks = k + 1
           /\ r.Node1OnlyBlocks = [j \in 1..(n - 1 - k) |-> k + j]
           /\ r.MismatchedBlocks = <<>>
           /\ r.Node2OnlyBlocks = <<>>
           /\ r.DivergencePoint = k + 1
           /\ r.SyncPercentage.den > 0
           /\ r.SyncPercentage.num * n = 100 * (k + 1) * r.SyncPercentage.den
           /\ \E j \in 1..Len(r.Recommendations) :
                StartsWith(r.Recommendations[j],
                           "Node2 is " \o Itoa(n - 1 - k) \o " blocks behind")

\* C17 witness: 10 blocks against the first 7 of them: 7 matching, 7..9
\* on node 1 only, divergence at 7, 70 percent, node 2 is 3 behind.
C17_Witness ==
  /\ CompareReturned
  /\ WellFormed(store[1])
  /\ ChainLen(store[1]) = 10
  /\ store[2] = [i \in 0..6 |-> store[1][i]]
  /\ cmp.result.MatchingBlocks = 7
  /\ cmp.result.Node1OnlyBlocks = <<7, 8, 9>>
  /\ cmp.result.DivergencePoint = 7
  /\ cmp.result.SyncPercentage.num = 70 * cmp.result.SyncPercentage.den
  /\ cmp.result.Recommendations[1]
       = "Node2 is 3 blocks behind - sync from Node1"

\* C18: at every point of compare the divergence point is the least
\* height in the mismatched, node-1-only and node-2-only lists, and -1
\* exactly when the three are empty.
C18_FirstWriterWins ==
  cmd = "compare" =>
    LET r == cmp.result
        U == Range(r.MismatchedBlocks) \cup Range(r.Node1OnlyBlocks)
               \cup Range(r.Node2OnlyBlocks)
    IN  /\ r.DivergencePoint = IF U = {} THEN -1 ELSE Min(U)
        /\ r.DivergencePoint = -1 <=> U = {}
        /\ r.HashMismatches = r.MismatchedBlocks

\* C18 witness: node 2 lacks the blocks 4..6 and differs from block 7 on;
\* the divergence point is 4.
C18_Witness ==
  /\ CompareReturned
  /\ cmp.result.Node1OnlyBlocks = <<4, 5, 6>>
  /\ cmp.result.MismatchedBlocks = <<7, 8, 9>>
  /\ cmp.result.DivergencePoint = 4

\* C19: the sync percentage is 100 * matchingBlocks / (scanLimit + 1) when
\* scanLimit >= 0 and 0 otherwise; it lies in 0..100, matchingBlocks being
\* at most scanLimit + 1.
C19_SyncPercentage ==
  CompareReturned =>
    LET sp == cmp.result.SyncPercentage
        mb == cmp.result.MatchingBlocks
    IN  /\ sp.den > 0
        /\ ScanLimit >= 0 => sp.num * (ScanLimit + 1) = 100 * mb * sp.den
        /\ ScanLimit < 0 => sp.num = 0
        /\ 0 <= mb /\ mb <= ScanLimit + 1
        /\ 0 <= sp.num /\ sp.num <= 100 * sp.den

\* C19 witness: 1 block of 3 matches (33.3 percent).
C19_Witness ==
  /\ CompareReturned
  /\ ScanLimit = 2
  /\ cmp.result.MatchingBlocks = 1
  /\ cmp.result.SyncPercentage.num * 3 = 100 * cmp.result.SyncPercentage.den

\* C20: when there are N > 0 hash mismatches the recommendations hold a
\* "Found N hash mismatches" entry, after the divergence entry.
C20_HashMismatchEntry ==
  CompareReturned =>
    LET r == cmp.result
        N == Len(r.HashMismatches)
    IN  N > 0 =>
          \E j \in 1..Len(r.Recommendations) :
            /\ r.Recommendations[j]
                 = "Found " \o Itoa(N) \o " hash mismatches"
            /\ \E d \in 1..(j - 1) :
                 r.Recommendations[d]
                   = "Chains diverge at block " \o Itoa(r.DivergencePoint)

\* The entry that names the shorter chain, its lag and the sync source,
\* when the heights hA and hB of node 1 and node 2 differ.
BehindEntry(hA, hB) ==
  IF hA > hB
  THEN <<"Node2 is " \o Itoa(hA - hB) \o " blocks behind - sync from Node1">>
  ELSE IF hA < hB
  THEN <<"Node1 is " \o Itoa(hB - hA) \o " blocks behind - sync from Node2">>
  ELSE <<>>

DivergeEntry(dp) ==
  IF dp >= 0 THEN <<"Chains diverge at block " \o Itoa(dp)>> ELSE <<>>

Synchronized == "Nodes are perfectly synchronized"

\* C21: the recommendations are never empty; they start with the height
\* entry iff the heights differ, then the divergence entry iff there is a
\* divergence point (anything after these is a hash-mismatch entry); the
\* synchronized message is there iff neither fired and is then alone.
C21_Recommendations ==
  CompareReturned =>
    LET r == cmp.result
        recs == r.Recommendations
        lead == BehindEntry(GetMaxHeight(store[1]), GetMaxHeight(store[2]))
                  \o DivergeEntry(r.DivergencePoint)
    IN  /\ Len(recs) >= 1
        /\ lead = <<>> <=> Synchronized \in Range(recs)
        /\ lead = <<>> => recs = <<Synchronized>>
        /\ lead # <<>> =>
             /\ Len(recs) >= Len(lead)
             /\ SubSeq(recs, 1, Len(lead)) = lead
             /\ \A j \in (Len(lead) + 1)..Len(recs) :
                  StartsWith(recs[j], "Found ")

\* C21 witness: node 1 is behind and the chains diverge; both entries are
\* there, in that order.
C21_Witness ==
  /\ CompareReturned
  /\ GetMaxHeight(store[1]) = 1
  /\ GetMaxHeight(store[2]) = 4
  /\ cmp.result.Recommendations =
       <<"Node1 is 3 blocks behind - sync from Node2",
         "Chains diverge at block 2">>

\* A store the command needs cannot be opened.
OpenFails ==
  /\ cmd \in {"scan-errors", "compare"}
  /\ ~openable[1] \/ (cmd = "compare" /\ ~openable[2])

\* C22: when a store cannot be opened no scan or comparison starts, no
\* report is printed and the process exits with a non-zero exit code.
C22_OpenFailureAborts ==
  OpenFails =>
    /\ pc \notin {"run", "scanloop", "scancalc", "cmploop", "cmpcalc", "output"}
    /\ report = "none"
    /\ scan = IdleScan
    /\ cmp = IdleCompare
    /\ pc = "exited" => exitCode # 0

\* C23: in a chain of good blocks with one undecodable record, at height
\* h, the blocks scan decodes after h have no Height-Mismatch, PrevHash
\* or Out-of-Order finding.
C23_NoCascade ==
  ScanReturned =>
    \A h \in 0..MaxKey :
      (/\ store[1][h] = CorruptBytes
       /\ \A k \in 0..MaxKey : k # h => store[1][k] = Marshal(Good(k)))
      => \A q \in (h + 1)..MaxKey :
           Examined(q) =>
             /\ q \notin Range(scan.result.HeightErrors)
             /\ q \notin Range(scan.result.PrevHashErrors)
             /\ q \notin Range(scan.result.OutOfOrderBlocks)

\* The last block decoded at a position below p, as prevBlock holds it.
RECURSIVE LastDecodedBelow(_, _)
LastDecodedBelow(s, p) ==
  IF p <= 0 THEN <<>>
  ELSE IF Decodable(s, p - 1) THEN <<s[p - 1].block>>
  ELSE LastDecodedBelow(s, p - 1)

\* The loop is at an undecodable record.
AtCorrupted ==
  /\ pc = "scanloop"
  /\ Present(store[1], scan.i)
  /\ ~Decodable(store[1], scan.i)

\* C24: the step over an undecodable record appends to the Corrupted list
\* and adds one to totalErrors, and changes nothing else but i; so at
\* every position of the loop previousBlock is the last block decoded
\* below it, and expectedHeight and blocksScanned count those blocks.
C24_CorruptedFrame ==
  /\ [][AtCorrupted =>
          /\ scan'.prevBlock = scan.prevBlock
          /\ scan'.expectedHeight = scan.expectedHeight
          /\ scan'.seenHashes = scan.seenHashes
          /\ scan'.i = scan.i + 1
          /\ scan'.result =
               [scan.result EXCEPT !.CorruptedJSON = Append(@, scan.i),
                                   !.TotalErrors = @ + 1]]_vars
  /\ [](pc = "scanloop" =>
          /\ scan.prevBlock = LastDecodedBelow(store[1], scan.i)
          /\ scan.expectedHeight = DecodedBelow(store[1], scan.i)
          /\ scan.result.BlocksScanned = DecodedBelow(store[1], scan.i))

\* C24 witness: the scan has passed an undecodable record at height 1;
\* block 2 was linkage-checked against block 0 and found to repeat its
\* hash.
C24_Witness ==
  /\ ScanReturned
  /\ store[1][0] = Marshal(Good(0))
  /\ store[1][1] = CorruptBytes
  /\ Examined(2)
  /\ scan.result.CorruptedJSON = <<1>>
  /\ scan.result.PrevHashErrors = <<2>>
  /\ scan.result.DuplicateHashes = <<<<2, 0>>>>
  /\ scan.result.BlocksScanned = 2

\* The nine checks of a decoded block.
BlockChecks == Categories \ {"CorruptedJSON", "MissingBlocks"}

\* The condition of check c for the block b at position sc.i, given the
\* locals sc of the scan before the block.
Fires(c, b, sc) ==
  CASE c = "BadHash" -> b # Seal(b)
    [] c = "DuplicateHashes" -> b.Hash \in DOMAIN sc.seenHashes
    [] c = "TimestampFuture" -> b.Timestamp > sc.currentTime + FutureTolerance
    [] c = "TimestampPast" -> b.Timestamp < sc.currentTime - TenYears
    [] c = "TimestampNotIncreasing" ->
         sc.prevBlock # <<>> /\ b.Timestamp <= sc.prevBlock[1].Timestamp
    [] c = "EmptyBlocks" -> IsBlank(b.Data)
    [] c = "PrevHashErrors" ->
         IF sc.i = 0 THEN b.PrevHash # "0"
         ELSE sc.prevBlock # <<>> /\ b.PrevHash # sc.prevBlock[1].Hash
    [] c = "HeightErrors" -> b.Height # sc.expectedHeight
    [] c = "OutOfOrderBlocks" -> b.Height < sc.expectedHeight

\* C25: the step over a decoded block adds one finding to the list of
\* every check whose condition holds, whatever the other checks found,
\* none to the other lists, and the number of those checks to totalErrors.
C25_Independent ==
  [][(pc = "scanloop" /\ Decodable(store[1], scan.i) /\ pc' # "panic") =>
       LET b == store[1][scan.i].block
           fired == {c \in BlockChecks : Fires(c, b, scan)}
       IN  /\ \A c \in fired :
                Len(scan'.result[c]) = Len(scan.result[c]) + 1
           /\ \A c \in Categories \ fired :
                scan'.result[c] = scan.result[c]
           /\ scan'.result.TotalErrors
                = scan.result.TotalErrors + Cardinality(fired)]_vars

\* C25 witness: block 1 carries two findings (bad hash, duplicate hash)
\* and block 2 three (prevHash, height, out of order).
C25_Witness ==
  /\ ScanReturned
  /\ scan.result.BadHash = <<1>>
  /\ scan.result.DuplicateHashes = <<<<1, 0>>>>
  /\ scan.result.PrevHashErrors = <<2>>
  /\ scan.result.HeightErrors = <<2>>
  /\ scan.result.OutOfOrderBlocks = <<2>>
  /\ scan.result.TotalErrors = 5

FindingCount(r) ==
  Len(r.CorruptedJSON) + Len(r.BadHash) + Len(r.TimestampFuture)
  + Len(r.TimestampPast) + Len(r.TimestampNotIncreasing)
  + Len(r.DuplicateHashes) + Len(r.EmptyBlocks) + Len(r.PrevHashErrors)
  + Len(r.HeightErrors) + Len(r.MissingBlocks) + Len(r.OutOfOrderBlocks)

\* C27: at every step of a scan, and in its result, totalErrors is the
\* number of findings in the eleven lists.
C27_TotalIsSum ==
  cmd = "scan-errors" => scan.result.TotalErrors = FindingCount(scan.result)

\* C27 witness: a result with findings in at least four lists.
C27_Witness ==
  /\ ScanReturned
  /\ Cardinality({c \in Categories : scan.result[c] # <<>>}) >= 4
  /\ scan.result.TotalErrors = FindingCount(scan.result)
  /\ scan.result.TotalErrors >= 5

\* The entries of seq are distinct.
NoRepeats(seq) == Cardinality(Range(seq)) = Len(seq)

\* C28: at every compared height at least one store yields a decodable
\* block.  After compare each height 0..scanLimit is counted once: as a
\* match (both decode, same hash), a mismatch (both decode, other hash),
\* node-1-only or node-2-only (the other store's record is absent or does
\* not decode); the four counts add up to scanLimit + 1.
C28_Accounting ==
  /\ pc = "cmploop" =>
       Decodable(store[1], cmp.i) \/ Decodable(store[2], cmp.i)
  /\ CompareReturned =>
       LET r == cmp.result
           H == 0..ScanLimit
           d1(i) == Decodable(store[1], i)
           d2(i) == Decodable(store[2], i)
           same(i) == store[1][i].block.Hash = store[2][i].block.Hash
       IN  /\ \A i \in H : d1(i) \/ d2(i)
           /\ r.MatchingBlocks
                = Cardinality({i \in H : d1(i) /\ d2(i) /\ same(i)})
           /\ Range(r.MismatchedBlocks) = {i \in H : d1(i) /\ d2(i) /\ ~same(i)}
           /\ Range(r.Node1OnlyBlocks) = {i \in H : d1(i) /\ ~d2(i)}
           /\ Range(r.Node2OnlyBlocks) = {i \in H : ~d1(i) /\ d2(i)}
           /\ NoRepeats(r.MismatchedBlocks)
           /\ NoRepeats(r.Node1OnlyBlocks)
           /\ NoRepeats(r.Node2OnlyBlocks)
           /\ r.MatchingBlocks + Len(r.MismatchedBlocks)
                + Len(r.Node1OnlyBlocks) + Len(r.Node2OnlyBlocks)
                = ScanLimit + 1

\* C28 witness: node 1's record 2 does not decode; height 2 is counted as
\* node-2-only and the four other heights as matches.
C28_Witness ==
  /\ CompareReturned
  /\ ScanLimit = 4
  /\ Present(store[1], 2)
  /\ ~Decodable(store[1], 2)
  /\ cmp.result.Node2OnlyBlocks = <<2>>
  /\ cmp.result.MatchingBlocks = 4

\* decimal(height) + prevHash + data + decimal(timestamp)
Concatenation(f) ==
  Itoa(f.Height) \o f.PrevHash \o f.Data \o Itoa(f.Timestamp)

\* C29: the hash depends on the fields through their concatenation only:
\* fields with the same concatenation have the same hash, and a block
\* whose stored hash was computed from other fields with the same
\* concatenation has no Bad-Hash finding (with another concatenation it
\* has one).
C29_ConcatenationOnly ==
  /\ \A f \in HashFields, g \in HashFields :
       Concatenation(f) = Concatenation(g) <=>
         ComputeHash(f.Height, f.PrevHash, f.Data, f.Timestamp)
           = ComputeHash(g.Height, g.PrevHash, g.Data, g.Timestamp)
  /\ ScanReturned =>
       \A f \in HashFields, g \in HashFields :
         store[1][0] = Marshal(SealedAs(f, g)) =>
           (Concatenation(f) = Concatenation(g)
              <=> scan.result.BadHash = <<>>)

\* C29 witness: the block of height 1 with prevHash "23" carries the hash
\* of the block of height 12 with prevHash "3", and has no Bad-Hash
\* finding.
C29_Witness ==
  /\ ScanReturned
  /\ store[1][0].block.Height = 1
  /\ store[1][0].block.PrevHash = "23"
  /\ store[1][0].block.Hash
       = ComputeHash(12, "3", store[1][0].block.Data,
                     store[1][0].block.Timestamp)
  /\ scan.result.BlocksScanned = 1
  /\ scan.result.BadHash = <<>>


\* The load has ended and written its blocks.
Loaded == cmd = "load" /\ pc = "exited" /\ exitCode = 0

\* The scan after the load has returned, at the clock value of the load.
ScannedAtLoadTime ==
  ScanReturned /\ earlier # <<>> /\ earlier[1].time = clock

\* The store holds exactly the n sample blocks written at the time now:
\* heights 0..n-1, each chained to the one before ("0" for the first),
\* sealed with ComputeHash of its fields, timestamp now + 10*i.
HoldsSample(s, n, now) ==
  /\ \A i \in DOMAIN s : Present(s, i) <=> i < n
  /\ \A i \in 0..(n - 1) :
       /\ i \in DOMAIN s
       /\ Decodable(s, i)
       /\ LET b == s[i].block IN
          /\ b.Height = i
          /\ b.PrevHash = IF i = 0 THEN "0" ELSE s[i - 1].block.Hash
          /\ b.Data = "Transaction data for block " \o Itoa(i)
          /\ b.Timestamp = now + 10 * i
          /\ b.Hash = ComputeHash(i, b.PrevHash, b.Data, b.Timestamp)

\* The findings of r are Timestamp-Future findings only, at the heights
\* below n from 31 on.
OnlyFutureFrom31(r, n) ==
  /\ \A c \in Categories \ {"TimestampFuture"} : r[c] = <<>>
  /\ NoRepeats(r.TimestampFuture)
  /\ Range(r.TimestampFuture) = {i \in 0..(n - 1) : 10 * i > FutureTolerance}
  /\ Range(r.TimestampFuture) = {i \in 0..(n - 1) : i >= 31}

=============================================================================
